---- MODULE Spec2Model ----
(***************************************************************************)
(* A model of chow's step-execution engine: the recording runner used in   *)
(* tests (testRunner) and the production runner (prodRunner) driven by     *)
(* runRunnable.                                                            *)
(***************************************************************************)
EXTENDS Integers, Sequences, FiniteSets, TLC

VARIABLES
    mode,        \* "test": a testRunner drives the run; "prod": a prodRunner;
                 \* "placeholder": a program registers and looks up placeholders;
                 \* "json": a step log is encoded and decoded
    \* ---- testRunner (internal.go:165-169) and what its caller observes ----
    mocksArr,    \* backing array of the Mocks slice (shared with the caller)
    mocksLen,    \* len(r.Mocks): r.Mocks is mocksArr[1..mocksLen]
    callCounts,  \* r.callCounts, a map from step name to count
    stepLogs,    \* r.stepLogs
    calls,       \* history: one record per Run call made on the testRunner
    registered,  \* history: the mock list as the TestCase registered it
    \* ---- prodRunner (internal.go:52-58), runRunnable and the process ----
    program,     \* the runnable: the (name, step) pairs it passes to Run
    pc,          \* index of the runnable's next Run call
    status,      \* "running", "returned" or "panicked"
    mainErr,     \* runRunnable's named result err: <<>> is nil, <<e>> an error
    startDir,    \* r.startDir
    stepOutput,  \* r.stepOutput: "nil" or "buffer"
    entry,       \* "Main": run through runRunnable; "Direct": a prodRunner
                 \* built by hand (chow_test.go:26-33), no recover around it
    pathSep,     \* os.PathSeparator of the platform
    written,     \* step logs encoded to r.stepOutput
    launched,    \* commands of the child processes started
    returned,    \* StepResults that prodRunner.Run returned to the runnable
    prodCalls,   \* history: one record per prodRunner.Run call
    \* ---- the placeholder registry (internal.go:15) ----
    placeholders, \* the package's map: id -> name of the backing file
    phCalls,     \* history: the calls of Placeholder and PlaceholderPath
    \* ---- a step log on its way through JSON ----
    jsonIn,      \* the stepLog handed to the encoder
    jsonText,    \* <<>> or <<d>>, the JSON document the encoder wrote
    jsonOut,     \* <<>> or <<l>>, the stepLog decoded from the document
    \* ---- the error reporter, TestConfig.Run and the recording writers ----
    reports,     \* history: the calls of logFatal and logWarning
    testOutput,  \* the documents TestConfig.Run has encoded to tc.Output
    tee          \* a child's writes and the two recordingWriters of its Run

testVars == <<mocksArr, mocksLen, callCounts, stepLogs, calls, registered>>
prodVars == <<program, pc, status, mainErr, startDir, stepOutput, entry,
              pathSep, written, launched, returned, prodCalls>>
phVars == <<placeholders, phCalls>>
jsonVars == <<jsonIn, jsonText, jsonOut>>
auxVars == <<reports, testOutput, tee>>
vars == <<mode, testVars, prodVars, phVars, jsonVars, auxVars>>

----------------------------------------------------------------------------
(* Bounds of the model. *)
MaxMocks == 2
MaxCalls == 3
MaxSteps == 2
MaxPlaceholders == 2
MaxLookups == 3
MaxStrLen == 1
MaxSliceLen == 1
MaxReports == 2
MaxWrites == 3

----------------------------------------------------------------------------
(* Data: chow.go:46-56, testing.go:28-31, internal.go:21-25. *)

\* A token is a sequence of characters.
Echo == <<"e", "c", "h", "o">>
Hello == <<"H", "i">>
OutTxt == <<"o", "u", "t">>

Step(command, outputs) == [Command |-> command, Outputs |-> outputs]

StepResult(stdout, stderr, exitCode) ==
    [Stdout |-> stdout, Stderr |-> stderr, ExitCode |-> exitCode]

\* The zero value StepResult{}.
ZeroResult == StepResult("", "", 0)

\* The zero value Step{}.
ZeroStep == Step(<<>>, <<>>)

StepLog(name, step, result) ==
    [StepName |-> name, Step |-> step, StepResult |-> result]

\* A Mock; id is its registration index, kept to tell equal mocks apart.
Mock(name, result, id) == [Step |-> name, Result |-> result, id |-> id]

\* No child is writing.
NoTee == [writes |-> <<>>]

----------------------------------------------------------------------------
(* Inputs of the test-mode runs. *)

Names == {"s", "s 1", "t"}

MockedResults == {StepResult("mocked stdout", "mocked stderr", 31),
                  StepResult("other", "", 0)}

TestSteps == {Step(<<Echo>>, <<>>),
              Step(<<Echo, <<"/", "/", "/", "x">>>>, <<OutTxt>>)}

\* The mock lists a TestCase can carry: every list of at most MaxMocks mocks.
MockLists ==
    UNION {{[i \in 1..n |-> Mock(f[i][1], f[i][2], i)] :
                f \in [1..n -> Names \X MockedResults]} : n \in 0..MaxMocks}

----------------------------------------------------------------------------
(* testRunner.Run, internal.go:174-200. *)

\* fmt.Sprintf("%s %d", name, i)
Sprintf(name, i) == name \o " " \o ToString(i)

\* internal.go:180-182: a name already counted is rewritten with its count.
DisambiguatedName(cc, name) ==
    IF name \in DOMAIN cc THEN Sprintf(name, cc[name]) ELSE name

\* internal.go:183: r.callCounts[name]++ on the (rewritten) name.
CountCall(cc, name) ==
    IF name \in DOMAIN cc
    THEN [cc EXCEPT ![name] = @ + 1]
    ELSE [k \in DOMAIN cc \cup {name} |-> IF k = name THEN 1 ELSE cc[k]]

\* r.Mocks as a sequence.
ActiveMocks(arr, len) == SubSeq(arr, 1, len)

\* A search that lets the mock registered last win.
FindMock_Last(ms, name) ==
    LET hits == {i \in 1..Len(ms) : ms[i].Step = name}
    IN  IF hits = {} THEN 0 ELSE CHOOSE i \in hits : \A j \in hits : i >= j

\* internal.go:189-196: index of the first mock whose Step is name, 0 if none.
FindMock(ms, name) ==
    LET hits == {i \in 1..Len(ms) : ms[i].Step = name}
    IN  IF hits = {} THEN 0 ELSE CHOOSE i \in hits : \A j \in hits : i <= j

\* A removal that forgets to remove: the slice is left as it was.
RemoveMock_Keep(arr, len, i) == [arr |-> arr, len |-> len]

\* A removal that drops the matched mock and every mock after it.
RemoveMock_Truncate(arr, len, i) == [arr |-> arr, len |-> i - 1]

\* internal.go:193: append(r.Mocks[:i], r.Mocks[i+1:]...) shifts the tail of
\* the slice down by one inside its backing array and shortens the slice.
RemoveMock(arr, len, i) ==
    [arr |-> [k \in 1..Len(arr) |->
                IF k >= i /\ k < len THEN arr[k + 1] ELSE arr[k]],
     len |-> len - 1]

\* A result variable that is not reset: without a match the call gets the
\* result of the first active mock.
MockedResult_Stale(ms, i) ==
    IF i = 0 THEN (IF ms = <<>> THEN ZeroResult ELSE ms[1].Result)
    ELSE ms[i].Result

\* internal.go:188-196: the result a call gets from the mocks ms.
MockedResult(ms, i) == IF i = 0 THEN ZeroResult ELSE ms[i].Result

\* A log that puts the newest entry first.
LogStep_Prepend(logs, log) == <<log>> \o logs

\* internal.go:198: r.stepLogs = append(r.stepLogs, ...)
LogStep(logs, log) == Append(logs, log)

TestRun(name, step) ==
    /\ mode = "test"
    /\ testOutput = <<>>
    /\ Len(calls) < MaxCalls
    /\ LET used   == DisambiguatedName(callCounts, name)
           ms     == ActiveMocks(mocksArr, mocksLen)
           i      == FindMock(ms, used)
           result == MockedResult(ms, i)
           rest   == IF i = 0 THEN [arr |-> mocksArr, len |-> mocksLen]
                     ELSE RemoveMock(mocksArr, mocksLen, i)
       IN  /\ callCounts' = CountCall(callCounts, used)
           /\ mocksArr' = rest.arr
           /\ mocksLen' = rest.len
           /\ stepLogs' = LogStep(stepLogs, StepLog(used, step, result))
           /\ calls' = Append(calls, [name |-> name, step |-> step,
                                      used |-> used, result |-> result,
                                      mock |-> IF i = 0 THEN 0 ELSE ms[i].id])
    /\ UNCHANGED <<mode, registered, prodVars, phVars, jsonVars, auxVars>>

\* testing.go:68-72: the document json.Encoder.Encode writes for
\* runner.stepLogs, a []stepLog that is nil until the first append
\* (internal.go:198): null for the nil slice, an array otherwise.
EncodeStepLogs(logs) ==
    IF logs = <<>> THEN [kind |-> "null"]
    ELSE [kind |-> "array", elems |-> logs]

\* testing.go:66-72: the runnable returns and TestConfig.Run encodes the
\* runner's step logs to tc.Output.
TestConfigReturns ==
    /\ mode = "test"
    /\ testOutput = <<>>
    /\ testOutput' = Append(testOutput, EncodeStepLogs(stepLogs))
    /\ UNCHANGED <<mode, testVars, prodVars, phVars, jsonVars, reports, tee>>

\* testing.go:65-66: the step logs a testRunner without mocks holds after a
\* runnable has made the calls prog[k..] on it, starting from the call
\* counts cc and the logs so far.  Each call is testRunner.Run.
RECURSIVE TestLogFrom(_, _, _, _)
TestLogFrom(prog, k, cc, logs) ==
    IF k > Len(prog) THEN logs
    ELSE LET used   == DisambiguatedName(cc, prog[k].name)
             result == MockedResult(<<>>, FindMock(<<>>, used))
         IN  TestLogFrom(prog, k + 1, CountCall(cc, used),
                         LogStep(logs, StepLog(used, prog[k].step, result)))

TestLogOf(prog) == TestLogFrom(prog, 1, [n \in {} |-> 0], <<>>)

----------------------------------------------------------------------------
(* Strings as character sequences: strings.HasPrefix, strings.SplitN(p,     *)
(* prefix, 2)[1] for a p that has the prefix, strings.TrimRight(s, "/")     *)
(* and filepath.FromSlash.                                                  *)

Slash == <<"/">>

HasPrefix(p, prefix) ==
    Len(p) >= Len(prefix) /\ SubSeq(p, 1, Len(prefix)) = prefix

AfterPrefix(p, prefix) == SubSeq(p, Len(prefix) + 1, Len(p))

RECURSIVE TrimRightSlash(_)
TrimRightSlash(s) ==
    IF s # <<>> /\ s[Len(s)] = "/"
    THEN TrimRightSlash(SubSeq(s, 1, Len(s) - 1))
    ELSE s

\* filepath.FromSlash: every "/" becomes the platform's separator.
FromSlash(s) == [k \in 1..Len(s) |-> IF s[k] = "/" THEN pathSep ELSE s[k]]

----------------------------------------------------------------------------
(* Error values: errors.go:11-31.  An error is a record; formatError puts   *)
(* the product tag, the level, the cause and, unless the step is Step{},    *)
(* the step into one message.                                               *)

\* A message that dumps the step whatever it is.
formatError_AlwaysDump(level, err, step) ==
    [tag |-> "chow", level |-> level, err |-> err, step |-> <<step>>]

formatError(level, err, step) ==
    [tag |-> "chow", level |-> level, err |-> err,
     step |-> IF step = ZeroStep THEN <<>> ELSE <<step>>]

\* The message logWarning prints: the cause is errors.New(message).
logWarning(message, step) == formatError("WARN", <<message>>, step)

\* The value logFatal panics with: fmt.Errorf("%s: %v", message, err).
logFatal(message, err, step) == formatError("FATAL", <<message, err>>, step)

\* A panic of the Go runtime (nil dereference, failed type assertion); the
\* value implements error.
RuntimeError(what) ==
    [tag |-> "runtime", level |-> "", err |-> <<what>>, step |-> <<>>]

\* Whether a panic value implements error (the assertion r.(error)).
IsError(v) == v.tag \in {"chow", "runtime", "os", "fmt"}

----------------------------------------------------------------------------
(* The environment of a production run. *)

CwdPrefix == <<"/", "/", "c", "w", "d", "/">>
PhPrefix == <<"/", "/", "p", "h", "/">>
StartPrefix == <<"/", "/", "/">>

Nope == <<"n", "o", "p", "e">>

\* Directories os.Getwd can report on the platform.
Dirs ==
    IF pathSep = "/"
    THEN {<<"/", "h", "/", "u">>, <<"/">>}
    ELSE {<<"C", ":", "\\", "u">>}

\* chow.go:74: fmt.Sprintf("%d", n), as a token.
RECURSIVE Itoa(_)
Itoa(n) ==
    IF n < 10 THEN <<ToString(n)>>
    ELSE Itoa(n \div 10) \o <<ToString(n % 10)>>

\* chow.go:75: the name ioutil.TempFile("", id) gives the file it creates in
\* the temporary directory: id followed by a random string.
TempFileName(id) == <<"/", "t", "m", "p", "/">> \o id \o <<"r">>

\* A Placeholder that numbers every file 0.
Placeholder_SameId(ph, contents, tempFile) ==
    LET id == Itoa(0) IN
    IF tempFile # "ok"
    THEN [placeholders |-> ph, token |-> <<>>,
          panic |-> <<[tag |-> "os", what |-> "temp file"]>>]
    ELSE [placeholders |->
              [k \in DOMAIN ph \cup {id} |->
                  IF k = id THEN TempFileName(id) ELSE ph[k]],
          token |-> <<PhPrefix \o id>>,
          panic |-> <<>>]

\* chow.go:69-86: Placeholder(contents) on the registry ph.  tempFile is
\* "ok" or "error": whether creating and writing the file succeeded.
Placeholder(ph, contents, tempFile) ==
    LET id == Itoa(Cardinality(DOMAIN ph)) IN
    IF tempFile # "ok"
    THEN [placeholders |-> ph, token |-> <<>>,
          panic |-> <<[tag |-> "os", what |-> "temp file"]>>]
    ELSE [placeholders |->
              [k \in DOMAIN ph \cup {id} |->
                  IF k = id THEN TempFileName(id) ELSE ph[k]],
          token |-> <<PhPrefix \o id>>,
          panic |-> <<>>]

\* chow.go:89-95: PlaceholderPath(id) on the registry ph.  The map is read
\* with the argument as it was passed.
PlaceholderPath(ph, id) ==
    IF id \in DOMAIN ph
    THEN [path |-> <<ph[id]>>, panic |-> <<>>]
    ELSE [path |-> <<>>,
          panic |-> <<[tag |-> "fmt", what |-> "unkown placeholder ID",
                       id |-> id]>>]

\* The registry of a production run: Placeholder was called once before it.
EmptyRegistry == [id \in {} |-> <<>>]
RunRegistry == Placeholder(EmptyRegistry, "def", "ok").placeholders

\* Executables that exec.Command(...).Start() can start.
Executables == {Echo}

\* os.Getwd() at the time of a Run call.
GetwdResults == {[ok |-> TRUE, dir |-> d] : d \in Dirs} \cup
                {[ok |-> FALSE, dir |-> <<>>]}

\* child.Wait(): nil, an *exec.ExitError with a status, or another error.
WaitResults == {[kind |-> "nil", status |-> 0],
                [kind |-> "ExitError", status |-> 3],
                [kind |-> "other", status |-> 0]}

\* os.Stat of an output: found, not-exist error, or another error.
StatResults == {"ok", "notexist", "error"}

\* What the child wrote to its stdout and stderr, by how it ended.
ChildStdout(wait) == IF wait.kind = "nil" THEN "Hello" ELSE ""
ChildStderr(wait) == IF wait.kind = "nil" THEN "" ELSE "boom"

\* The Run calls a runnable can make in production.
ProdCalls ==
    {[name |-> "hello", step |-> Step(<<Echo, Hello>>, <<>>)],
     [name |-> "build",
      step |-> Step(<<Echo, StartPrefix \o <<"x">>>>, <<OutTxt>>)],
     [name |-> "cwd",
      step |-> Step(<<Echo, CwdPrefix \o <<"x">>>>,
                    <<CwdPrefix \o <<"y">>, StartPrefix \o <<"o">>>>)],
     [name |-> "ph", step |-> Step(<<Echo, PhPrefix \o <<"0">>>>, <<>>)],
     [name |-> "ph?", step |-> Step(<<Echo, PhPrefix \o <<"7">>>>, <<>>)],
     [name |-> "nope", step |-> Step(<<Nope>>, <<OutTxt>>)],
     [name |-> "abs",
      step |-> Step(<<Echo, <<"/", "a">>, <<"/", "/", "x">>>>, <<>>)]}

Programs == UNION {[1..n -> ProdCalls] : n \in 0..MaxSteps}

\* The environments a Run call of step can meet.  Getwd is consulted only
\* when a token has the cwd prefix.
Envs(step) ==
    {[getwd |-> g, wait |-> w, stat |-> st] :
        g \in {r \in GetwdResults :
                 \/ \E k \in 1..Len(step.Command) :
                        HasPrefix(step.Command[k], CwdPrefix)
                 \/ \E k \in 1..Len(step.Outputs) :
                        HasPrefix(step.Outputs[k], CwdPrefix)
                 \/ r = [ok |-> FALSE, dir |-> <<>>]},
        w \in WaitResults,
        st \in [1..Len(step.Outputs) -> StatResults]}

----------------------------------------------------------------------------
(* prodRunner.convertAnyPaths, internal.go:124-159.  The tokens are         *)
(* rewritten in place, left to right; the result is the array as it stands  *)
(* when the function returns or panics.                                     *)

RECURSIVE ConvertFrom(_, _, _, _)
ConvertFrom(args, i, sd, getwd) ==
    IF i > Len(args)
    THEN [args |-> args, startDir |-> sd, outcome |-> "ok"]
    ELSE LET p == args[i] IN
         IF HasPrefix(p, CwdPrefix)
         THEN IF ~getwd.ok
              THEN [args |-> args, startDir |-> sd, outcome |-> "error"]
              ELSE ConvertFrom(
                     [args EXCEPT ![i] = FromSlash(
                         getwd.dir \o Slash \o AfterPrefix(p, CwdPrefix))],
                     i + 1, sd, getwd)
         ELSE IF HasPrefix(p, PhPrefix)
         THEN LET id == AfterPrefix(p, PhPrefix) IN
              IF id \notin DOMAIN placeholders
              THEN \* file is nil: file.(*os.File) panics
                   [args |-> args, startDir |-> sd, outcome |-> "panic"]
              ELSE ConvertFrom([args EXCEPT ![i] = placeholders[id]],
                               i + 1, sd, getwd)
         ELSE IF HasPrefix(p, StartPrefix)
         THEN LET trimmed == TrimRightSlash(sd) IN
              ConvertFrom(
                [args EXCEPT ![i] = FromSlash(
                    trimmed \o Slash \o AfterPrefix(p, StartPrefix))],
                i + 1, trimmed, getwd)
         ELSE ConvertFrom(args, i + 1, sd, getwd)

\* The warnings convertAnyPaths logs while it walks args.  The last branch,
\* internal.go:154-156, passes over absolute paths, relative paths and other
\* arguments without a call of logWarning, and no other branch has one.
ConvertWarnings(args) == <<>>

\* A resolver that stops at a placeholder id it does not know and reports
\* success, leaving that token and the ones after it as they were.
convertAnyPaths_UnknownIgnored(args, sd, getwd) ==
    LET r == ConvertFrom(args, 1, sd, getwd) IN
    IF r.outcome = "panic" THEN [r EXCEPT !.outcome = "ok"] ELSE r

\* A resolver that takes the working directory of the moment, when it has
\* read it, for the start directory.
convertAnyPaths_StartDirIsCwd(args, sd, getwd) ==
    ConvertFrom(args, 1, IF getwd.ok THEN getwd.dir ELSE sd, getwd)

\* A resolver that joins a cwd token to the start directory of the run
\* instead of the directory os.Getwd reports.
convertAnyPaths_CwdIsStartDir(args, sd, getwd) ==
    ConvertFrom(args, 1, sd, [getwd EXCEPT !.dir = sd])

convertAnyPaths(args, sd, getwd) == ConvertFrom(args, 1, sd, getwd)

----------------------------------------------------------------------------
(* prodRunner.Run, internal.go:61-121.  RunProd gives what one call does:   *)
(*   panic    <<>> or <<v>>, the value the call panics with                 *)
(*   result   <<>> or <<r>>, the StepResult returned to the caller          *)
(*   launched <<>> or <<c>>, the command of the child process started       *)
(*   log      <<>> or <<l>>, the step log encoded to r.stepOutput           *)
(*   current  r.currentStep when the call ends (its slices are the          *)
(*            caller's, rewritten in place)                                 *)
(*   startDir r.startDir when the call ends                                 *)

Outcome(panic, result, launch, log, current, sd, missing) ==
    [panic |-> panic, result |-> result, launched |-> launch, log |-> log,
     current |-> current, startDir |-> sd, missing |-> missing]

\* A check with the test on the error inverted: it collects the outputs whose
\* Stat failed for another reason.
MissingOutputs_WrongError(outputs, stat) ==
    SelectSeq([k \in 1..Len(outputs) |-> <<outputs[k], stat[k]>>],
              LAMBDA e : e[2] = "error")

\* internal.go:89-96: the outputs os.Stat reports as not existing.
MissingOutputs(outputs, stat) ==
    SelectSeq([k \in 1..Len(outputs) |-> <<outputs[k], stat[k]>>],
              LAMBDA e : e[2] = "notexist")

\* An assertion made with the comma-ok form and its failure dropped: any
\* other wait error leaves the exit code at 0.
ExitCode_Swallowed(wait) ==
    IF wait.kind = "ExitError" THEN <<wait.status>> ELSE <<0>>

\* internal.go:84-87: the exit code, or a failed assertion to *exec.ExitError.
ExitCode(wait) ==
    IF wait.kind = "nil" THEN <<0>>
    ELSE IF wait.kind = "ExitError" THEN <<wait.status>>
    ELSE <<>>

\* internal.go:114-118: encoding to a nil io.Writer dereferences nil.
EncodeLog(out, log) == IF out = "nil" THEN <<>> ELSE <<log>>

\* A start whose error is dropped: the call goes on as if the child ran.
StartChild_ErrorIgnored(command) == TRUE

\* internal.go:80-82: child.Start() succeeds for an executable that exists
\* and may be run; any error of it is fatal.
StartChild(command) == command[1] \in Executables

\* A child built from the step as it was passed, before its tokens were
\* resolved.
ChildCommand_Unresolved(step, cur) == step.Command

\* internal.go:71: the child is built from r.currentStep.Command, after both
\* conversions.
ChildCommand(step, cur) == cur.Command

RunProd(name, step, sd, out, env) ==
    LET c == convertAnyPaths(step.Command, sd, env.getwd)
        o == convertAnyPaths(step.Outputs, c.startDir, env.getwd)
        afterCmd == Step(c.args, step.Outputs)
        cur == Step(c.args, o.args)
        missing == MissingOutputs(cur.Outputs, env.stat)
        code == ExitCode(env.wait)
    IN
    IF c.outcome = "error"
    THEN Outcome(<<logFatal("failed to convert paths in step command",
                            "failed to get cwd", afterCmd)>>,
                 <<>>, <<>>, <<>>, afterCmd, c.startDir, <<>>)
    ELSE IF c.outcome = "panic"
    THEN Outcome(<<RuntimeError("interface conversion")>>,
                 <<>>, <<>>, <<>>, afterCmd, c.startDir, <<>>)
    ELSE IF o.outcome = "error"
    THEN Outcome(<<logFatal("failed to convert paths in step outputs",
                            "failed to get cwd", cur)>>,
                 <<>>, <<>>, <<>>, cur, o.startDir, <<>>)
    ELSE IF o.outcome = "panic"
    THEN Outcome(<<RuntimeError("interface conversion")>>,
                 <<>>, <<>>, <<>>, cur, o.startDir, <<>>)
    ELSE IF cur.Command = <<>>
    THEN Outcome(<<RuntimeError("index out of range")>>,
                 <<>>, <<>>, <<>>, cur, o.startDir, <<>>)
    ELSE IF ~StartChild(cur.Command)
    THEN Outcome(<<logFatal("failed to start child process",
                            "executable file not found", cur)>>,
                 <<>>, <<>>, <<>>, cur, o.startDir, <<>>)
    ELSE IF code = <<>>
    THEN Outcome(<<RuntimeError("interface conversion")>>,
                 <<>>, <<ChildCommand(step, cur)>>, <<>>, cur, o.startDir, <<>>)
    ELSE IF missing # <<>>
    THEN Outcome(<<logFatal("declared outputs missing after step execution",
                            "ouputs are missing", cur)>>,
                 <<>>, <<ChildCommand(step, cur)>>, <<>>, cur, o.startDir, missing)
    ELSE LET result == StepResult(ChildStdout(env.wait),
                                  ChildStderr(env.wait), code[1])
             log == EncodeLog(out, StepLog(name, cur, result))
         IN  IF log = <<>>
             THEN Outcome(<<RuntimeError("nil pointer dereference")>>,
                          <<>>, <<ChildCommand(step, cur)>>, <<>>, cur, o.startDir, <<>>)
             ELSE Outcome(<<>>, <<result>>, <<ChildCommand(step, cur)>>, log, cur,
                          o.startDir, <<>>)

\* The step value the caller passed, as the caller sees it when the call
\* ends.  internal.go:60-62 copies the Step struct, that is its two slice
\* headers; the arrays behind them stay shared, and convertAnyPaths stores
\* each resolved token into those arrays (args[i] = ..., internal.go:134,
\* 143, 151).  The caller's tokens are the tokens of r.currentStep.
CallerStep(step, o) ==
    Step([i \in 1..Len(step.Command) |-> o.current.Command[i]],
         [i \in 1..Len(step.Outputs) |-> o.current.Outputs[i]])

----------------------------------------------------------------------------
(* runRunnable, internal.go:27-50, and the runnable's calls to Run. *)

\* A recover that notes the error and lets the runnable go on.
Recover_Continue(v) == [status |-> "running", err |-> <<v>>]

\* internal.go:30-34: the deferred recover.  A value that implements error
\* becomes the returned err; the assertion r.(error) panics on any other.
Recover(v) ==
    IF IsError(v)
    THEN [status |-> "returned", err |-> <<v>>]
    ELSE [status |-> "panicked", err |-> <<>>]

\* What a panic with value v leads to: recovered under runRunnable, passed
\* on to the caller of a runner that was built by hand.
Unwind(v) ==
    IF entry = "Main" THEN Recover(v)
    ELSE [status |-> "panicked", err |-> <<>>]

\* internal.go:36-45: the start directory is read and the runner built.
RunRunnableStart ==
    /\ mode = "prod"
    /\ status = "start"
    /\ \E g \in GetwdResults :
         IF g.ok
         THEN /\ startDir' = g.dir
              /\ status' = "running"
              /\ mainErr' = <<>>
         ELSE LET u == Unwind(logFatal("failed to get working directory",
                                       "getwd", ZeroStep))
              IN  /\ startDir' = startDir
                  /\ status' = u.status
                  /\ mainErr' = u.err
    /\ UNCHANGED <<mode, testVars, program, pc, stepOutput, entry, pathSep,
                   written, launched, returned, prodCalls, phVars, jsonVars, auxVars>>

\* The runnable's next call r.Run(name, step) on the prodRunner.
ProdRun ==
    /\ mode = "prod"
    /\ status = "running"
    /\ pc <= Len(program)
    /\ \E env \in Envs(program[pc].step) :
         LET call == program[pc]
             o == RunProd(call.name, call.step, startDir, stepOutput, env)
             u == IF o.panic = <<>>
                  THEN [status |-> "running", err |-> mainErr]
                  ELSE Unwind(o.panic[1])
         IN  /\ startDir' = o.startDir
             /\ launched' = launched \o o.launched
             /\ written' = written \o o.log
             /\ returned' = returned \o o.result
             /\ prodCalls' = Append(prodCalls,
                                    [name |-> call.name, step |-> call.step,
                                     sd |-> startDir, env |-> env,
                                     warnings |->
                                         ConvertWarnings(call.step.Command)
                                         \o ConvertWarnings(call.step.Outputs),
                                     after |-> CallerStep(call.step, o),
                                     outcome |-> o])
             /\ pc' = IF o.panic = <<>> THEN pc + 1 ELSE pc
             /\ status' = u.status
             /\ mainErr' = u.err
    /\ UNCHANGED <<mode, testVars, program, stepOutput, entry, pathSep,
                   phVars, jsonVars, auxVars>>

\* internal.go:48-49: the runnable returns and so does runRunnable.
RunnableReturns ==
    /\ mode = "prod"
    /\ status = "running"
    /\ pc > Len(program)
    /\ status' = "returned"
    /\ UNCHANGED <<mode, testVars, program, pc, mainErr, startDir, stepOutput,
                   entry, pathSep, written, launched, returned, prodCalls,
                   phVars, jsonVars, auxVars>>

\* The values a runnable's own code can panic with: an error it made, a
\* runtime error (an index out of range), a string.
PanicValues ==
    {[tag |-> "fmt", level |-> "", err |-> <<"boom">>, step |-> <<>>],
     RuntimeError("index out of range"),
     [tag |-> "string", level |-> "", err |-> <<"boom">>, step |-> <<>>]}

\* internal.go:48, 30-34: the runnable's own code panics with v while it
\* runs; the panic unwinds into the deferred function of runRunnable.
RunnablePanics(v) ==
    /\ mode = "prod"
    /\ status = "running"
    /\ LET u == Unwind(v)
       IN  /\ status' = u.status
           /\ mainErr' = u.err
    /\ UNCHANGED <<mode, testVars, program, pc, startDir, stepOutput,
                   entry, pathSep, written, launched, returned, prodCalls,
                   phVars, jsonVars, auxVars>>

----------------------------------------------------------------------------
(* A program that registers placeholders and looks their paths up,          *)
(* chow.go:58-95.  A panic of either function ends the program.             *)

Contents == {"", "def"}

PhPanicked == \E k \in 1..Len(phCalls) : phCalls[k].panic # <<>>

\* The tokens the calls of Placeholder have returned so far.
ReturnedTokens ==
    {phCalls[k].ret[1] : k \in {j \in 1..Len(phCalls) :
                                  /\ phCalls[j].op = "Placeholder"
                                  /\ phCalls[j].ret # <<>>}}

\* What a program passes to PlaceholderPath: a token Placeholder returned,
\* the id cut out of one (chow_test.go:122), or an id never handed out.
LookupArgs ==
    ReturnedTokens \cup {AfterPrefix(t, PhPrefix) : t \in ReturnedTokens}
                   \cup {<<"7">>}

\* chow.go:69-86: a call of Placeholder.
CallPlaceholder ==
    /\ mode = "placeholder"
    /\ ~PhPanicked
    /\ Cardinality(DOMAIN placeholders) < MaxPlaceholders
    /\ \E contents \in Contents, tempFile \in {"ok", "error"} :
         LET r == Placeholder(placeholders, contents, tempFile) IN
         /\ placeholders' = r.placeholders
         /\ phCalls' = Append(phCalls,
                              [op |-> "Placeholder", arg |-> contents,
                               ret |-> r.token, panic |-> r.panic,
                               registry |-> r.placeholders])
    /\ UNCHANGED <<mode, testVars, prodVars, jsonVars, auxVars>>

\* chow.go:89-95: a call of PlaceholderPath.
CallPlaceholderPath ==
    /\ mode = "placeholder"
    /\ ~PhPanicked
    /\ Cardinality({k \in 1..Len(phCalls) :
                       phCalls[k].op # "Placeholder"}) < MaxLookups
    /\ \E arg \in LookupArgs :
         LET r == PlaceholderPath(placeholders, arg) IN
         phCalls' = Append(phCalls,
                           [op |-> "PlaceholderPath", arg |-> arg,
                            ret |-> r.path, panic |-> r.panic,
                            registry |-> placeholders])
    /\ UNCHANGED <<mode, testVars, prodVars, placeholders, jsonVars, auxVars>>

\* internal.go:61-121: a production Run of a step that passes a token
\* Placeholder returned, on a runner with a log writer; the child exits
\* normally.
CallRunWithPlaceholder ==
    /\ mode = "placeholder"
    /\ ~PhPanicked
    /\ Cardinality({k \in 1..Len(phCalls) :
                       phCalls[k].op # "Placeholder"}) < MaxLookups
    /\ \E token \in ReturnedTokens :
         LET o == RunProd("ph", Step(<<Echo, token>>, <<>>), <<"/">>,
                          "buffer",
                          [getwd |-> [ok |-> FALSE, dir |-> <<>>],
                           wait |-> [kind |-> "nil", status |-> 0],
                           stat |-> <<>>])
         IN  phCalls' = Append(phCalls,
                               [op |-> "Run", arg |-> token,
                                ret |-> o.launched, panic |-> o.panic,
                                registry |-> placeholders])
    /\ UNCHANGED <<mode, testVars, prodVars, placeholders, jsonVars, auxVars>>

----------------------------------------------------------------------------
(* A step log through encoding/json: written by json.Encoder.Encode         *)
(* (internal.go:114-116) under the field names of the struct tags           *)
(* (internal.go:21-25, chow.go:46-56), read back by json.Unmarshal          *)
(* (chow_test.go:286).                                                      *)
(*                                                                          *)
(* A Go string is a sequence of code units: "a" is an ordinary character,   *)
(* "\"" one that JSON escapes, "xFF" a byte that is not valid UTF-8 (a      *)
(* child process can print any byte) and "uFFFD" the replacement character. *)
(* A []string is nil or a slice of strings.                                 *)

Chars == {"a", "\"", "xFF"}

GoStrings == UNION {[1..n -> Chars] : n \in 0..MaxStrLen}

NilSlice == [nil |-> TRUE, elems |-> <<>>]
Slice(elems) == [nil |-> FALSE, elems |-> elems]

GoSlices ==
    {NilSlice} \cup
    {Slice(e) : e \in UNION {[1..n -> GoStrings] : n \in 0..MaxSliceLen}}

\* The step logs handed to the encoder.
JsonEntries ==
    {StepLog(n, Step(c, o), StepResult(so, se, x)) :
        n \in {<<>>, <<"a">>},
        c \in {NilSlice, Slice(<<<<"a">>>>)},
        o \in GoSlices,
        so \in GoStrings,
        se \in {<<>>, <<"a">>},
        x \in {0, 3}}

\* What the encoder writes for one code unit of a string: a quote is
\* escaped, an invalid byte is replaced by the escape of U+FFFD.
EncodeChar(ch) ==
    IF ch = "\"" THEN "\\\""
    ELSE IF ch = "xFF" THEN "\\ufffd"
    ELSE ch

\* What the decoder reads from one item of a JSON string.
DecodeChar(t) ==
    IF t = "\\\"" THEN "\""
    ELSE IF t = "\\ufffd" THEN "uFFFD"
    ELSE t

EncodeString(str) ==
    [kind |-> "string", text |-> [i \in 1..Len(str) |-> EncodeChar(str[i])]]

DecodeString(j) == [i \in 1..Len(j.text) |-> DecodeChar(j.text[i])]

\* A nil slice is written as null, any other as an array.
EncodeStrings(sl) ==
    IF sl.nil THEN [kind |-> "null"]
    ELSE [kind |-> "array",
          elems |-> [i \in 1..Len(sl.elems) |-> EncodeString(sl.elems[i])]]

\* A decoder that makes an empty slice of null.
DecodeStrings_NullIsEmpty(j) ==
    IF j.kind = "null" THEN Slice(<<>>)
    ELSE Slice([i \in 1..Len(j.elems) |-> DecodeString(j.elems[i])])

\* null leaves the slice of the fresh value nil; an array makes a slice.
DecodeStrings(j) ==
    IF j.kind = "null" THEN NilSlice
    ELSE Slice([i \in 1..Len(j.elems) |-> DecodeString(j.elems[i])])

\* internal.go:114-116: the document written for a stepLog.
Marshal(log) ==
    [step_name |-> EncodeString(log.StepName),
     step |-> [command |-> EncodeStrings(log.Step.Command),
               outputs |-> EncodeStrings(log.Step.Outputs)],
     result |-> [stdout |-> EncodeString(log.StepResult.Stdout),
                 stderr |-> EncodeString(log.StepResult.Stderr),
                 exit_code |-> [kind |-> "number",
                                n |-> log.StepResult.ExitCode]]]

\* chow_test.go:285-288: the document decoded into a fresh stepLog.
Unmarshal(doc) ==
    StepLog(DecodeString(doc.step_name),
            Step(DecodeStrings(doc.step.command),
                 DecodeStrings(doc.step.outputs)),
            StepResult(DecodeString(doc.result.stdout),
                       DecodeString(doc.result.stderr),
                       doc.result.exit_code.n))

EncodeEntry ==
    /\ mode = "json"
    /\ jsonText = <<>>
    /\ jsonText' = <<Marshal(jsonIn)>>
    /\ UNCHANGED <<mode, testVars, prodVars, phVars, jsonIn, jsonOut,
                   auxVars>>

DecodeEntry ==
    /\ mode = "json"
    /\ jsonText # <<>>
    /\ jsonOut = <<>>
    /\ jsonOut' = <<Unmarshal(jsonText[1])>>
    /\ UNCHANGED <<mode, testVars, prodVars, phVars, jsonIn, jsonText,
                   auxVars>>

----------------------------------------------------------------------------
(* The error reporter called by a program, errors.go:11-20. *)

Messages == {"failed to start child process", "unsafe use of absolute path"}
Causes == {"executable file not found", "getwd"}
ReportSteps == {ZeroStep, Step(<<Echo>>, <<>>), Step(<<>>, <<OutTxt>>)}

\* errors.go:11-15: logFatal formats the report and panics with it; the
\* statement after the call is not reached.
CallLogFatal ==
    /\ mode = "errors"
    /\ Len(reports) < MaxReports
    /\ \E message \in Messages, cause \in Causes, step \in ReportSteps :
         reports' = Append(reports,
                           [fn |-> "logFatal", message |-> message,
                            cause |-> <<cause>>, step |-> step,
                            printed |-> <<>>,
                            panic |-> <<logFatal(message, cause, step)>>,
                            returned |-> FALSE])
    /\ UNCHANGED <<mode, testVars, prodVars, phVars, jsonVars, testOutput,
                   tee>>

\* errors.go:17-20: logWarning formats the report, prints it to os.Stderr
\* and returns.
CallLogWarning ==
    /\ mode = "errors"
    /\ Len(reports) < MaxReports
    /\ \E message \in Messages, step \in ReportSteps :
         reports' = Append(reports,
                           [fn |-> "logWarning", message |-> message,
                            cause |-> <<>>, step |-> step,
                            printed |-> <<logWarning(message, step)>>,
                            panic |-> <<>>,
                            returned |-> TRUE])
    /\ UNCHANGED <<mode, testVars, prodVars, phVars, jsonVars, testOutput,
                   tee>>

----------------------------------------------------------------------------
(* Initial states and specifications. *)

\* testing.go:65: runner := &testRunner{Mocks: tc.Mocks}
----------------------------------------------------------------------------
(* The capture of a child's output: prodRunner.Run gives the child one
   recordingWriter per stream (internal.go:73-78); os/exec copies what the
   child writes to a stream into that stream's writer, and stops copying a
   stream at the first error its writer returns. *)

\* The bytes a child writes in one write.
Bytes == {"a", "b"}

Streams == {"out", "err"}

\* internal.go:75-76: &recordingWriter{Delegate: ...} with an empty buffer;
\* sink is what the delegate has accepted, failed whether the copy into this
\* writer has stopped on an error.
NewRecordingWriter == [buf |-> "", sink |-> "", failed |-> FALSE]

Write_Unrecorded(w, b, ok) ==
    IF ok THEN [w EXCEPT !.sink = @ \o b] ELSE [w EXCEPT !.failed = TRUE]

\* internal.go:211-216: recordingWriter.Write appends b to the buffer (a
\* bytes.Buffer write returns no error), then hands b to the delegate and
\* returns the delegate's result; ok is whether the delegate accepted b.
Write(w, b, ok) ==
    IF ok THEN [w EXCEPT !.buf = @ \o b, !.sink = @ \o b]
    ELSE [w EXCEPT !.buf = @ \o b, !.failed = TRUE]

\* internal.go:77-78: the copy of a stream into its writer, which ends at the
\* first failed Write; what the child writes after that is dropped.
Copy(w, b, ok) == IF w.failed THEN w ELSE Write(w, b, ok)

\* internal.go:85: child.Wait() for a child that exited with code: an
\* *exec.ExitError for a non-zero code, else the error of a copy that stopped,
\* else nil.
Wait(code, copyFailed) ==
    IF code # 0 THEN [kind |-> "ExitError", status |-> code]
    ELSE IF copyFailed THEN [kind |-> "other", status |-> 0]
    ELSE [kind |-> "nil", status |-> 0]

\* The exit codes of the child.
ExitCodes == {0, 3}

\* internal.go:84 (child.Start() succeeded): the child writes b to a stream.
ChildWrites(stream, b, ok) ==
    /\ mode = "tee"
    /\ tee.state = "running"
    /\ Len(tee.writes) < MaxWrites
    /\ tee' = [tee EXCEPT !.writes = Append(@, [stream |-> stream, b |-> b]),
                          ![stream] = Copy(@, b, ok)]
    /\ UNCHANGED <<mode, testVars, prodVars, phVars, jsonVars,
                   reports, testOutput>>

\* internal.go:84-87, 103-120: the child exits, Wait returns, and Run builds
\* the StepResult from the two buffers, or panics in the assertion of the
\* error of Wait.
ChildExits(code) ==
    /\ mode = "tee"
    /\ tee.state = "running"
    /\ LET exit == ExitCode(Wait(code, tee.out.failed \/ tee.err.failed))
       IN  tee' = IF exit = <<>>
                  THEN [tee EXCEPT !.state = "panicked"]
                  ELSE [tee EXCEPT
                            !.state = "returned",
                            !.result = <<StepResult(tee.out.buf, tee.err.buf,
                                                    exit[1])>>]
    /\ UNCHANGED <<mode, testVars, prodVars, phVars, jsonVars,
                   reports, testOutput>>

InitTest ==
    /\ mode = "test"
    /\ mocksArr \in MockLists
    /\ mocksLen = Len(mocksArr)
    /\ registered = mocksArr
    /\ callCounts = [k \in {} |-> 0]
    /\ stepLogs = <<>>
    /\ calls = <<>>
    /\ program = <<>>
    /\ pc = 1
    /\ status = "returned"
    /\ mainErr = <<>>
    /\ startDir = <<>>
    /\ stepOutput = "nil"
    /\ entry = "TestConfig"
    /\ pathSep = "/"
    /\ written = <<>>
    /\ launched = <<>>
    /\ returned = <<>>
    /\ prodCalls = <<>>
    /\ placeholders = EmptyRegistry
    /\ phCalls = <<>>
    /\ jsonIn = StepLog("", ZeroStep, ZeroResult)
    /\ jsonText = <<>>
    /\ jsonOut = <<>>
    /\ reports = <<>>
    /\ testOutput = <<>>
    /\ tee = NoTee

\* internal.go:27 (entry of runRunnable, from Main) or chow_test.go:26-33 (a
\* prodRunner built with a start directory and a log writer).
InitProd ==
    /\ mode = "prod"
    /\ mocksArr = <<>>
    /\ mocksLen = 0
    /\ registered = <<>>
    /\ callCounts = [k \in {} |-> 0]
    /\ stepLogs = <<>>
    /\ calls = <<>>
    /\ program \in Programs
    /\ pc = 1
    /\ mainErr = <<>>
    /\ pathSep \in {"/", "\\"}
    /\ entry \in {"Main", "Direct"}
    /\ \/ entry = "Main" /\ status = "start" /\ stepOutput = "nil"
          /\ startDir = <<>>
       \/ entry = "Direct" /\ status = "running" /\ stepOutput = "buffer"
          /\ startDir \in Dirs
    /\ written = <<>>
    /\ launched = <<>>
    /\ returned = <<>>
    /\ prodCalls = <<>>
    /\ placeholders = RunRegistry
    /\ phCalls = <<>>
    /\ jsonIn = StepLog("", ZeroStep, ZeroResult)
    /\ jsonText = <<>>
    /\ jsonOut = <<>>
    /\ reports = <<>>
    /\ testOutput = <<>>
    /\ tee = NoTee

\* internal.go:15: the registry is nil until Placeholder is first called.
InitPlaceholder ==
    /\ mode = "placeholder"
    /\ mocksArr = <<>>
    /\ mocksLen = 0
    /\ registered = <<>>
    /\ callCounts = [k \in {} |-> 0]
    /\ stepLogs = <<>>
    /\ calls = <<>>
    /\ program = <<>>
    /\ pc = 1
    /\ status = "returned"
    /\ mainErr = <<>>
    /\ startDir = <<>>
    /\ stepOutput = "nil"
    /\ entry = "Library"
    /\ pathSep = "/"
    /\ written = <<>>
    /\ launched = <<>>
    /\ returned = <<>>
    /\ prodCalls = <<>>
    /\ placeholders = EmptyRegistry
    /\ phCalls = <<>>
    /\ jsonIn = StepLog("", ZeroStep, ZeroResult)
    /\ jsonText = <<>>
    /\ jsonOut = <<>>
    /\ reports = <<>>
    /\ testOutput = <<>>
    /\ tee = NoTee

\* chow_test.go:274-284: a stepLog to encode.
InitJSON ==
    /\ mode = "json"
    /\ mocksArr = <<>>
    /\ mocksLen = 0
    /\ registered = <<>>
    /\ callCounts = [k \in {} |-> 0]
    /\ stepLogs = <<>>
    /\ calls = <<>>
    /\ program = <<>>
    /\ pc = 1
    /\ status = "returned"
    /\ mainErr = <<>>
    /\ startDir = <<>>
    /\ stepOutput = "nil"
    /\ entry = "Library"
    /\ pathSep = "/"
    /\ written = <<>>
    /\ launched = <<>>
    /\ returned = <<>>
    /\ prodCalls = <<>>
    /\ placeholders = EmptyRegistry
    /\ phCalls = <<>>
    /\ jsonIn \in JsonEntries
    /\ jsonText = <<>>
    /\ jsonOut = <<>>
    /\ reports = <<>>
    /\ testOutput = <<>>
    /\ tee = NoTee

\* A program about to report errors.
InitErrors ==
    /\ mode = "errors"
    /\ mocksArr = <<>>
    /\ mocksLen = 0
    /\ registered = <<>>
    /\ callCounts = [k \in {} |-> 0]
    /\ stepLogs = <<>>
    /\ calls = <<>>
    /\ program = <<>>
    /\ pc = 1
    /\ status = "returned"
    /\ mainErr = <<>>
    /\ startDir = <<>>
    /\ stepOutput = "nil"
    /\ entry = "Library"
    /\ pathSep = "/"
    /\ written = <<>>
    /\ launched = <<>>
    /\ returned = <<>>
    /\ prodCalls = <<>>
    /\ placeholders = EmptyRegistry
    /\ phCalls = <<>>
    /\ jsonIn = StepLog("", ZeroStep, ZeroResult)
    /\ jsonText = <<>>
    /\ jsonOut = <<>>
    /\ reports = <<>>
    /\ testOutput = <<>>
    /\ tee = NoTee

\* internal.go:71-82: a prodRunner whose child has started, with a fresh
\* recordingWriter on each stream.
InitTee ==
    /\ mode = "tee"
    /\ mocksArr = <<>>
    /\ mocksLen = 0
    /\ registered = <<>>
    /\ callCounts = [k \in {} |-> 0]
    /\ stepLogs = <<>>
    /\ calls = <<>>
    /\ program = <<>>
    /\ pc = 1
    /\ status = "returned"
    /\ mainErr = <<>>
    /\ startDir = <<>>
    /\ stepOutput = "nil"
    /\ entry = "Library"
    /\ pathSep = "/"
    /\ written = <<>>
    /\ launched = <<>>
    /\ returned = <<>>
    /\ prodCalls = <<>>
    /\ placeholders = EmptyRegistry
    /\ phCalls = <<>>
    /\ jsonIn = StepLog("", ZeroStep, ZeroResult)
    /\ jsonText = <<>>
    /\ jsonOut = <<>>
    /\ reports = <<>>
    /\ testOutput = <<>>
    /\ tee = [writes |-> <<>>, out |-> NewRecordingWriter,
              err |-> NewRecordingWriter, state |-> "running",
              result |-> <<>>]

Init ==
    \/ InitTest
    \/ InitProd
    \/ InitPlaceholder
    \/ InitJSON
    \/ InitErrors
    \/ InitTee

NextTest == \E name \in Names, step \in TestSteps : TestRun(name, step)

NextTestConfig == NextTest \/ TestConfigReturns

NextProd == RunRunnableStart \/ ProdRun \/ RunnableReturns

NextMain == NextProd \/ \E v \in PanicValues : RunnablePanics(v)

NextPlaceholder ==
    CallPlaceholder \/ CallPlaceholderPath \/ CallRunWithPlaceholder

NextJSON == EncodeEntry \/ DecodeEntry

NextErrors == CallLogFatal \/ CallLogWarning

NextTee ==
    \/ \E stream \in Streams, b \in Bytes, ok \in BOOLEAN :
           ChildWrites(stream, b, ok)
    \/ \E code \in ExitCodes : ChildExits(code)

Next ==
    \/ NextTestConfig
    \/ NextMain
    \/ NextPlaceholder
    \/ NextJSON
    \/ NextErrors
    \/ NextTee

Spec == Init /\ [][Next]_vars

SpecTest == InitTest /\ [][NextTest]_vars

SpecProd == InitProd /\ [][NextProd]_vars

SpecMain == InitProd /\ [][NextMain]_vars

SpecTestConfig == InitTest /\ [][NextTestConfig]_vars

SpecTee == InitTee /\ [][NextTee]_vars

SpecPlaceholder == InitPlaceholder /\ [][NextPlaceholder]_vars

SpecJSON == InitJSON /\ [][NextJSON]_vars

SpecErrors == InitErrors /\ [][NextErrors]_vars

----------------------------------------------------------------------------
(* Properties of the test runner, checked under SpecTest. *)

\* The calls of the history that were served by the mock registered as id.
ServedBy(id) == {k \in 1..Len(calls) : calls[k].mock = id}

\* The ids of the active mocks, in slice order.
ActiveIds == [i \in 1..mocksLen |-> mocksArr[i].id]

\* C1: each registered mock supplies the result of at most one Run call; a
\* mock that has matched is no longer active; and with one mock {s, R} and
\* three consecutive calls Run(s, step), exactly one call is served by the
\* mock and returns R while the other two return the zero StepResult.
C1_MockAtMostOnce ==
    mode = "test" =>
      /\ \A id \in 1..Len(registered) : Cardinality(ServedBy(id)) <= 1
      /\ \A k \in 1..Len(calls) :
            calls[k].mock # 0 =>
              /\ calls[k].result = registered[calls[k].mock].Result
              /\ \A i \in 1..mocksLen : ActiveIds[i] # calls[k].mock
      /\ ( /\ Len(registered) = 1
           /\ Len(calls) >= 3
           /\ \A k \in 1..3 : calls[k].name = registered[1].Step )
         => \E k \in 1..3 :
               /\ calls[k].mock = 1
               /\ calls[k].result = registered[1].Result
               /\ \A j \in (1..3) \ {k} :
                     calls[j].mock = 0 /\ calls[j].result = ZeroResult

\* C1 witness: one mock, three calls with its name, one of them served.
C1_Witness ==
    /\ mode = "test"
    /\ Len(registered) = 1
    /\ Len(calls) = 3
    /\ \A k \in 1..3 : calls[k].name = registered[1].Step
    /\ calls[1].mock = 1
    /\ calls[2].result = ZeroResult
    /\ calls[3].result = ZeroResult

C2_Step ==
    (mode = "test" /\ Len(calls') = Len(calls) + 1) =>
      LET ms   == ActiveMocks(mocksArr, mocksLen)
          c    == calls'[Len(calls')]
          hits == {i \in 1..Len(ms) : ms[i].Step = c.used}
      IN  hits # {} =>
            \E i \in hits :
              /\ \A j \in hits : ms[i].id <= ms[j].id
              /\ c.mock = ms[i].id
              /\ c.result = ms[i].Result
              /\ ActiveMocks(mocksArr', mocksLen') =
                   [k \in 1..(Len(ms) - 1) |->
                      IF k < i THEN ms[k] ELSE ms[k + 1]]

\* C2: when several active mocks match the name of a Run call, the one
\* registered earliest supplies the result and only that one is removed; the
\* other active mocks, matching or not, stay active in their order.
C2_EarliestMockWins == [][C2_Step]_vars

\* C2 witness: two mocks with one name and different results; the call was
\* served by the first and the second is still active.
C2_Witness ==
    /\ mode = "test"
    /\ Len(registered) = 2
    /\ registered[1].Step = registered[2].Step
    /\ registered[1].Result # registered[2].Result
    /\ Len(calls) = 1
    /\ calls[1].mock = 1
    /\ calls[1].result = registered[1].Result
    /\ ActiveIds = <<2>>

\* The registered mocks that carry the name.
MocksNamed(name) == {i \in 1..Len(registered) : registered[i].Step = name}

DistinctNames ==
    \A i, j \in 1..Len(calls) : i # j => calls[i].name # calls[j].name

\* C3: Run never fails in test mode: a call that matches no active mock
\* returns the zero StepResult and the runner takes the next call; when the
\* names of the calls are pairwise distinct, a call returns a mock's result
\* if and only if a mock with exactly its name was registered.
C3_NeverFails ==
    mode = "test" =>
      /\ \A k \in 1..Len(calls) :
            calls[k].mock = 0 => calls[k].result = ZeroResult
      /\ Len(calls) < MaxCalls =>
            \A name \in Names, step \in TestSteps : ENABLED TestRun(name, step)
      /\ DistinctNames =>
            \A k \in 1..Len(calls) :
              LET named == MocksNamed(calls[k].name) IN
              /\ calls[k].mock # 0 <=> named # {}
              /\ named = {} => calls[k].result = ZeroResult
              /\ named # {} =>
                    \E i \in named :
                      /\ \A j \in named : i <= j
                      /\ calls[k].result = registered[i].Result

\* C3 witness: three calls with distinct names and one mock on the second
\* name: zero, mocked, zero.
C3_Witness ==
    /\ mode = "test"
    /\ Len(registered) = 1
    /\ Len(calls) = 3
    /\ DistinctNames
    /\ calls[2].name = registered[1].Step
    /\ calls[1].result = ZeroResult
    /\ calls[2].result = registered[1].Result
    /\ calls[3].result = ZeroResult

C4_LogMatchesCalls ==
    mode = "test" =>
      /\ Len(stepLogs) = Len(calls)
      /\ \A i \in 1..Len(calls) :
            /\ stepLogs[i].Step = calls[i].step
            /\ stepLogs[i].StepResult = calls[i].result

C4_LogAppends ==
    (mode = "test" /\ Len(calls') = Len(calls) + 1) =>
      /\ Len(stepLogs') = Len(stepLogs) + 1
      /\ SubSeq(stepLogs', 1, Len(stepLogs)) = stepLogs

\* C4: after n Run calls the log holds n entries in call order, entry i with
\* the step of call i as it was passed and the result call i returned; each
\* Run call appends one entry at the end and leaves the earlier ones alone.
C4_LogFidelity == []C4_LogMatchesCalls /\ [][C4_LogAppends]_vars

\* C4 witness: three calls, the first with a path token in its step and a
\* different step in the second, the second served by a mock.
C4_Witness ==
    /\ mode = "test"
    /\ Len(calls) = 3
    /\ Len(stepLogs) = 3
    /\ calls[1].step = Step(<<Echo, StartPrefix \o <<"x">>>>, <<OutTxt>>)
    /\ stepLogs[1].Step = calls[1].step
    /\ calls[2].step # calls[1].step
    /\ calls[2].mock # 0
    /\ stepLogs[2].StepResult # ZeroResult

\* C5: with two mocks registered for one name s and two calls Run(s, ...),
\* the first call returns the first mock's result and the second call the
\* second mock's result.
C5_SecondCallGetsSecondMock ==
    ( /\ mode = "test"
      /\ Len(registered) = 2
      /\ registered[1].Step = registered[2].Step
      /\ Len(calls) >= 2
      /\ calls[1].name = registered[1].Step
      /\ calls[2].name = registered[1].Step )
    => /\ calls[1].result = registered[1].Result
       /\ calls[2].result = registered[2].Result

\* C6: the names used for matching and written to the log for calls made
\* with one and the same stepName are pairwise distinct.
C6_RepeatedNamesDistinct ==
    mode = "test" =>
      \A i, j \in 1..Len(calls) :
        (i < j /\ calls[i].name = calls[j].name) =>
          /\ calls[i].used # calls[j].used
          /\ stepLogs[i].StepName # stepLogs[j].StepName

\* C7: the first call made with a stepName uses the name unmodified for
\* matching and in the log, whatever calls with other names came before.
C7_FirstUseUnmodified ==
    mode = "test" =>
      \A k \in 1..Len(calls) :
        (\A j \in 1..(k - 1) : calls[j].name # calls[k].name) =>
          /\ calls[k].used = calls[k].name
          /\ stepLogs[k].StepName = calls[k].name

----------------------------------------------------------------------------
(* Properties of the production runner, checked under SpecProd. *)

\* The child process of the call was started and exited (cleanly or not).
ProcessExited(c) == c.outcome.launched # <<>> /\ c.env.wait.kind # "other"

\* os.Stat reports a declared output of the call as not existing.
SomeOutputMissing(c) ==
    \E j \in DOMAIN c.env.stat : c.env.stat[j] = "notexist"

\* C8: if a declared output does not exist after the step's process exits,
\* also with exit code 0, Run fails fatally: it returns no StepResult, writes
\* no log entry for the step, and the run ends with a non-nil error.
C8_MissingOutputsFatal ==
    mode = "prod" =>
      \A k \in 1..Len(prodCalls) :
        LET c == prodCalls[k] IN
        (ProcessExited(c) /\ SomeOutputMissing(c)) =>
          /\ c.outcome.result = <<>>
          /\ c.outcome.log = <<>>
          /\ c.outcome.panic # <<>>
          /\ c.outcome.panic[1].level = "FATAL"
          /\ c.outcome.panic[1].err[1] =
                "declared outputs missing after step execution"
          /\ k = Len(prodCalls)
          /\ Len(returned) = k - 1
          /\ Len(written) < k
          /\ status # "running"
          /\ entry = "Main" =>
                status = "returned" /\ mainErr = c.outcome.panic

\* C8 witness: under Main a process exited with code 0, a declared output is
\* missing, and the run has returned the fatal error.
C8_Witness ==
    /\ mode = "prod"
    /\ entry = "Main"
    /\ Len(prodCalls) = 1
    /\ prodCalls[1].env.wait.kind = "nil"
    /\ ProcessExited(prodCalls[1])
    /\ SomeOutputMissing(prodCalls[1])
    /\ status = "returned"
    /\ mainErr # <<>>
    /\ returned = <<>>
    /\ written = <<>>

\* C9: once a Run call has failed, no later Run call of the runnable
\* launches a process or writes a log entry (the failed call is the last one
\* and the processes launched and entries written are those of the calls up
\* to it), and Main returns the error of that first failure.
C9_FailFast ==
    mode = "prod" =>
      \A k \in 1..Len(prodCalls) :
        prodCalls[k].outcome.panic # <<>> =>
          /\ k = Len(prodCalls)
          /\ status # "running"
          /\ Len(launched) =
               Cardinality({j \in 1..k : prodCalls[j].outcome.launched # <<>>})
          /\ Len(written) =
               Cardinality({j \in 1..k : prodCalls[j].outcome.log # <<>>})
          /\ entry = "Main" =>
                status = "returned" /\ mainErr = prodCalls[k].outcome.panic

\* C9 witness: under Main the first of two Run calls failed fatally; the
\* second was never made and Main returned that error.
C9_Witness ==
    /\ mode = "prod"
    /\ entry = "Main"
    /\ Len(program) = 2
    /\ Len(prodCalls) = 1
    /\ prodCalls[1].outcome.panic # <<>>
    /\ prodCalls[1].outcome.panic[1].level = "FATAL"
    /\ status = "returned"
    /\ mainErr = prodCalls[1].outcome.panic
    /\ pc = 1

\* The call started its process, the process exited with code 0 and every
\* declared output exists.
CleanCall(c) ==
    /\ c.outcome.launched # <<>>
    /\ c.env.wait.kind = "nil"
    /\ \A j \in DOMAIN c.env.stat : c.env.stat[j] = "ok"

\* C10: Main returns nil when the run is clean: a run of runRunnable whose
\* Run calls all started a process that exited normally with every declared
\* output present has returned without an error.
C10_CleanRunReturnsNil ==
    ( /\ mode = "prod"
      /\ entry = "Main"
      /\ status = "returned"
      /\ prodCalls # <<>>
      /\ \A k \in 1..Len(prodCalls) : CleanCall(prodCalls[k]) )
    => mainErr = <<>>

----------------------------------------------------------------------------
(* Properties of path resolution, checked under SpecProd. *)

\* The tokens of a step, command first: <<"Command", k>> or <<"Outputs", k>>.
TokenPlaces(step) ==
    ({"Command"} \X (1..Len(step.Command))) \cup
    ({"Outputs"} \X (1..Len(step.Outputs)))

TokenAt(step, pl) ==
    IF pl[1] = "Command" THEN step.Command[pl[2]] ELSE step.Outputs[pl[2]]

\* The start-directory prefix in its two-slash spelling.
DoubleSlash == <<"/", "/">>

\* A token written with the start-directory prefix, //<rest> or ///<rest>.
IsStartDirToken(p) ==
    /\ HasPrefix(p, DoubleSlash)
    /\ ~HasPrefix(p, CwdPrefix)
    /\ ~HasPrefix(p, PhPrefix)

StartDirRest(p) ==
    IF HasPrefix(p, StartPrefix) THEN AfterPrefix(p, StartPrefix)
    ELSE AfterPrefix(p, DoubleSlash)

\* C11: in a call that started its process, every token of the command and
\* of the outputs written //<rest> or ///<rest> has been rewritten to the
\* start directory, its trailing slashes trimmed, joined to <rest> in native
\* separators.
C11_StartDirTokensResolved ==
    \A k \in 1..Len(prodCalls) :
        LET c == prodCalls[k] IN
        c.outcome.launched # <<>> =>
            \A pl \in TokenPlaces(c.step) :
                LET p == TokenAt(c.step, pl) IN
                IsStartDirToken(p) =>
                    TokenAt(c.outcome.current, pl) =
                        FromSlash(TrimRightSlash(c.sd) \o Slash
                                  \o StartDirRest(p))

\* C12: in a call that started its process, every token written //cwd/<rest>
\* has been rewritten to the working directory os.Getwd reported during the
\* call, joined to <rest> in native separators; the start directory plays no
\* part, although the token also begins with the start-directory prefix.
C12_CwdTokensResolved ==
    \A k \in 1..Len(prodCalls) :
        LET c == prodCalls[k] IN
        c.outcome.launched # <<>> =>
            \A pl \in TokenPlaces(c.step) :
                LET p == TokenAt(c.step, pl) IN
                HasPrefix(p, CwdPrefix) =>
                    TokenAt(c.outcome.current, pl) =
                        FromSlash(c.env.getwd.dir \o Slash
                                  \o AfterPrefix(p, CwdPrefix))

\* A call resolved a //cwd/ token of its command and one of its outputs
\* while the working directory differed from the start directory.
C12_Witness ==
    \E k \in 1..Len(prodCalls) :
        LET c == prodCalls[k] IN
        /\ c.outcome.launched # <<>>
        /\ c.env.getwd.ok
        /\ c.env.getwd.dir # c.sd
        /\ \E i \in 1..Len(c.step.Command) :
               /\ HasPrefix(c.step.Command[i], CwdPrefix)
               /\ c.outcome.launched[1][i] =
                      FromSlash(c.env.getwd.dir \o Slash
                                \o AfterPrefix(c.step.Command[i], CwdPrefix))
        /\ \E i \in 1..Len(c.step.Outputs) :
               HasPrefix(c.step.Outputs[i], CwdPrefix)

\* The call has a //ph/ token whose id is not in the registry, and no cwd
\* token that os.Getwd failed on.
UnknownPlaceholder(c) ==
    /\ \E pl \in TokenPlaces(c.step) :
           /\ HasPrefix(TokenAt(c.step, pl), PhPrefix)
           /\ AfterPrefix(TokenAt(c.step, pl), PhPrefix)
                  \notin DOMAIN placeholders
    /\ \/ c.env.getwd.ok
       \/ \A pl \in TokenPlaces(c.step) :
              ~HasPrefix(TokenAt(c.step, pl), CwdPrefix)

\* C13: in a call that started its process every //ph/<id> token has a
\* registered id and has been rewritten to the path of the file registered
\* under it.  A call with an unregistered id starts no process, writes no
\* log entry and returns nothing: it ends the run, and a run made through
\* runRunnable returns a non-nil error.
C13_PlaceholderTokens ==
    \A k \in 1..Len(prodCalls) :
        LET c == prodCalls[k] IN
        /\ c.outcome.launched # <<>> =>
               \A pl \in TokenPlaces(c.step) :
                   LET p == TokenAt(c.step, pl) IN
                   HasPrefix(p, PhPrefix) =>
                       /\ AfterPrefix(p, PhPrefix) \in DOMAIN placeholders
                       /\ TokenAt(c.outcome.current, pl) =
                              placeholders[AfterPrefix(p, PhPrefix)]
        /\ UnknownPlaceholder(c) =>
               /\ c.outcome.launched = <<>>
               /\ c.outcome.log = <<>>
               /\ c.outcome.result = <<>>
               /\ c.outcome.panic # <<>>
               /\ k = Len(prodCalls)
               /\ pc = k
               /\ status # "running"
               /\ entry = "Main" => status = "returned" /\ mainErr # <<>>

\* A run through runRunnable met an unregistered placeholder id and returned
\* an error.
C13_Witness ==
    /\ entry = "Main"
    /\ prodCalls # <<>>
    /\ UnknownPlaceholder(prodCalls[Len(prodCalls)])
    /\ launched = <<>>
    /\ written = <<>>
    /\ status = "returned"
    /\ mainErr # <<>>

\* An absolute path: one leading slash, not two.
IsAbsoluteToken(p) == HasPrefix(p, Slash) /\ ~HasPrefix(p, DoubleSlash)

\* C14: in a call that started its process, every token that begins with
\* none of the prefixes is where it was, unchanged; and a call with an
\* absolute-path token has logged a warning, and when its process exited
\* normally with every declared output present it has returned a result and
\* written its log entry.
C14_UnprefixedTokensKept ==
    \A k \in 1..Len(prodCalls) :
        LET c == prodCalls[k] IN
        /\ c.outcome.launched # <<>> =>
               \A pl \in TokenPlaces(c.step) :
                   ~HasPrefix(TokenAt(c.step, pl), DoubleSlash) =>
                       TokenAt(c.outcome.current, pl) = TokenAt(c.step, pl)
        /\ (\E pl \in TokenPlaces(c.step) :
               IsAbsoluteToken(TokenAt(c.step, pl))) =>
               /\ c.outcome.launched # <<>> => c.warnings # <<>>
               /\ CleanCall(c) =>
                      /\ c.outcome.panic = <<>>
                      /\ c.outcome.result # <<>>
                      /\ c.outcome.log # <<>>

----------------------------------------------------------------------------
(* Properties of prodRunner.Run, checked under SpecProd. *)

\* The call started its process, the process exited (with whatever status)
\* and no declared output is reported as not existing.
ExitedCall(c) ==
    /\ c.outcome.launched # <<>>
    /\ c.env.wait.kind \in {"nil", "ExitError"}
    /\ \A j \in DOMAIN c.env.stat : c.env.stat[j] # "notexist"

\* C15: a call whose process exited, with status 0 or with a non-zero status
\* n, is not fatal: it returned a StepResult carrying that status as its
\* exit code, wrote a log entry with that result, and left the run going, so
\* that the runnable's next step can run.
C15_NonZeroExitNotFatal ==
    \A k \in 1..Len(prodCalls) :
        LET c == prodCalls[k] IN
        ExitedCall(c) =>
            /\ c.outcome.panic = <<>>
            /\ c.outcome.result # <<>>
            /\ c.outcome.result[1].ExitCode =
                   (IF c.env.wait.kind = "nil" THEN 0 ELSE c.env.wait.status)
            /\ c.outcome.log # <<>>
            /\ c.outcome.log[1].StepResult = c.outcome.result[1]
            /\ k = Len(prodCalls) =>
                   /\ pc = k + 1
                   /\ status \in {"running", "returned"}
                   /\ mainErr = <<>>

\* What the resolver is to make of one token, given the start directory and
\* the working directory of the call.
ResolvedToken(p, sd, wd) ==
    IF HasPrefix(p, CwdPrefix)
    THEN FromSlash(wd \o Slash \o AfterPrefix(p, CwdPrefix))
    ELSE IF HasPrefix(p, PhPrefix)
    THEN placeholders[AfterPrefix(p, PhPrefix)]
    ELSE IF HasPrefix(p, StartPrefix)
    THEN FromSlash(TrimRightSlash(sd) \o Slash \o AfterPrefix(p, StartPrefix))
    ELSE p

ResolvedStep(c) ==
    Step([i \in 1..Len(c.step.Command) |->
             ResolvedToken(c.step.Command[i], c.sd, c.env.getwd.dir)],
         [i \in 1..Len(c.step.Outputs) |->
             ResolvedToken(c.step.Outputs[i], c.sd, c.env.getwd.dir)])

\* The call ended in the fatal error of the command's conversion.
CommandConversionFailed(c) ==
    /\ c.outcome.panic # <<>>
    /\ c.outcome.panic[1].tag = "chow"
    /\ c.outcome.panic[1].err[1] = "failed to convert paths in step command"

\* C20: a call resolves the tokens of the command, then those of the
\* outputs, before it starts the process: a call that failed on the command
\* has not touched the outputs; the process is started with the resolved
\* command; the outputs reported missing are resolved outputs; and the log
\* entry carries the name as passed and the resolved step.
C20_ResolvedStepUsed ==
    \A k \in 1..Len(prodCalls) :
        LET c == prodCalls[k] IN
        /\ CommandConversionFailed(c) =>
               /\ c.outcome.current.Outputs = c.step.Outputs
               /\ c.outcome.launched = <<>>
        /\ c.outcome.launched # <<>> =>
               c.outcome.launched[1] = ResolvedStep(c).Command
        /\ \A j \in 1..Len(c.outcome.missing) :
               \E i \in 1..Len(c.step.Outputs) :
                   /\ c.env.stat[i] = "notexist"
                   /\ c.outcome.missing[j][1] = ResolvedStep(c).Outputs[i]
        /\ c.outcome.log # <<>> =>
               /\ c.outcome.log[1].StepName = c.name
               /\ c.outcome.log[1].Step = ResolvedStep(c)

\* A call whose command and outputs both held path tokens started its
\* process with the resolved command and logged the resolved step; and a
\* call reported a resolved output as missing.
C20_Witness ==
    /\ \E k \in 1..Len(prodCalls) :
           LET c == prodCalls[k] IN
           /\ c.outcome.log # <<>>
           /\ c.outcome.log[1].Step.Command # c.step.Command
           /\ c.outcome.log[1].Step.Outputs # c.step.Outputs
           /\ c.outcome.launched = <<c.outcome.log[1].Step.Command>>
    /\ \E k \in 1..Len(prodCalls) :
           LET c == prodCalls[k] IN
           /\ c.outcome.missing # <<>>
           /\ c.outcome.missing[1][1] \notin
                  {c.step.Outputs[i] : i \in 1..Len(c.step.Outputs)}

\* The call resolved its tokens and its executable cannot be started.
CannotStart(c) ==
    /\ c.step.Command # <<>>
    /\ c.step.Command[1] = Nope
    /\ \/ c.env.getwd.ok
       \/ \A pl \in TokenPlaces(c.step) :
              ~HasPrefix(TokenAt(c.step, pl), CwdPrefix)

\* C21: a call whose executable cannot be started is fatal: it returns no
\* StepResult, starts nothing, reports no output as missing although one
\* does not exist (the outputs are not looked at), writes no log entry, and
\* ends the run with the report of the failed start, which a run through
\* runRunnable returns as a non-nil error.
C21_StartFailureFatal ==
    \A k \in 1..Len(prodCalls) :
        LET c == prodCalls[k] IN
        CannotStart(c) =>
            /\ c.outcome.result = <<>>
            /\ c.outcome.launched = <<>>
            /\ c.outcome.missing = <<>>
            /\ c.outcome.log = <<>>
            /\ c.outcome.panic # <<>>
            /\ c.outcome.panic[1].tag = "chow"
            /\ c.outcome.panic[1].level = "FATAL"
            /\ c.outcome.panic[1].err[1] = "failed to start child process"
            /\ k = Len(prodCalls)
            /\ Len(written) = k - 1
            /\ Len(returned) = k - 1
            /\ status # "running"
            /\ entry = "Main" => status = "returned" /\ mainErr = c.outcome.panic

\* A run through runRunnable returned the error of a step that could not be
\* started and whose declared output did not exist.
C21_Witness ==
    /\ entry = "Main"
    /\ status = "returned"
    /\ prodCalls # <<>>
    /\ CannotStart(prodCalls[Len(prodCalls)])
    /\ prodCalls[Len(prodCalls)].env.stat[1] = "notexist"
    /\ mainErr # <<>>
    /\ mainErr[1].err[1] = "failed to start child process"
    /\ written = <<>>

\* The call started its process and child.Wait returned an error that is
\* not an *exec.ExitError.
WaitFailed(c) ==
    /\ c.outcome.launched # <<>>
    /\ c.env.wait.kind = "other"

\* C22: a wait error that is not a non-zero exit is not swallowed: the call
\* returns no StepResult (none with exit code 0 in particular), writes no
\* log entry, and ends the run with a panic value that a run through
\* runRunnable returns as a non-nil error.
C22_WaitErrorNotSwallowed ==
    \A k \in 1..Len(prodCalls) :
        LET c == prodCalls[k] IN
        WaitFailed(c) =>
            /\ c.outcome.result = <<>>
            /\ c.outcome.log = <<>>
            /\ c.outcome.panic # <<>>
            /\ k = Len(prodCalls)
            /\ Len(written) = k - 1
            /\ Len(returned) = k - 1
            /\ status # "running"
            /\ entry = "Main" => status = "returned" /\ mainErr = c.outcome.panic

\* A run through runRunnable returned an error after a wait error; and so
\* did not report the step.
C22_Witness ==
    /\ entry = "Main"
    /\ status = "returned"
    /\ prodCalls # <<>>
    /\ WaitFailed(prodCalls[Len(prodCalls)])
    /\ mainErr # <<>>
    /\ mainErr[1].tag = "runtime"
    /\ written = <<>>
    /\ returned = <<>>

\* C23: the start directory of the runner names the same directory in every
\* call of the run as in the first; in a call that started its process each
\* /// token has been joined to that directory, whatever the working
\* directory was during the call, and each //cwd/ token to the working
\* directory os.Getwd reported during that very call.
C23_StartDirFixedCwdCurrent ==
    prodCalls # <<>> =>
        LET start == TrimRightSlash(prodCalls[1].sd) IN
        /\ TrimRightSlash(startDir) = start
        /\ \A k \in 1..Len(prodCalls) :
               LET c == prodCalls[k] IN
               /\ TrimRightSlash(c.sd) = start
               /\ c.outcome.launched # <<>> =>
                      \A pl \in TokenPlaces(c.step) :
                          LET p == TokenAt(c.step, pl) IN
                          /\ HasPrefix(p, StartPrefix) =>
                                 TokenAt(c.outcome.current, pl) =
                                     FromSlash(start \o Slash
                                               \o AfterPrefix(p, StartPrefix))
                          /\ HasPrefix(p, CwdPrefix) =>
                                 TokenAt(c.outcome.current, pl) =
                                     FromSlash(c.env.getwd.dir \o Slash
                                               \o AfterPrefix(p, CwdPrefix))

\* The second call of a run resolved a //cwd/ token and a /// token while
\* the working directory was neither the start directory nor the working
\* directory of the first call.
C23_Witness ==
    /\ Len(prodCalls) = 2
    /\ prodCalls[1].outcome.launched # <<>>
    /\ prodCalls[2].outcome.launched # <<>>
    /\ prodCalls[1].env.getwd.ok
    /\ prodCalls[2].env.getwd.ok
    /\ prodCalls[2].env.getwd.dir # prodCalls[1].env.getwd.dir
    /\ prodCalls[2].env.getwd.dir # prodCalls[1].sd
    /\ \E pl \in TokenPlaces(prodCalls[2].step) :
           HasPrefix(TokenAt(prodCalls[2].step, pl), StartPrefix)
    /\ \E pl \in TokenPlaces(prodCalls[2].step) :
           HasPrefix(TokenAt(prodCalls[2].step, pl), CwdPrefix)

\* C18: when a call of Run has returned, the step value the caller passed
\* holds the tokens it held before the call, also when the call resolved
\* path tokens.
C18_CallerStepUnchanged ==
    \A k \in 1..Len(prodCalls) :
        prodCalls[k].outcome.result # <<>> =>
            prodCalls[k].after = prodCalls[k].step

\* What a log records of each step: its name, command and outputs.
Recorded(logs) ==
    [i \in 1..Len(logs) |->
        <<logs[i].StepName, logs[i].Step.Command, logs[i].Step.Outputs>>]

\* No token of the runnable's steps begins with a path prefix.
NoPathTokens(prog) ==
    \A k \in 1..Len(prog) : \A pl \in TokenPlaces(prog[k].step) :
        ~HasPrefix(TokenAt(prog[k].step, pl), DoubleSlash)

\* C19: a runnable without path tokens whose calls do not depend on results
\* has run to its end on a production runner that writes its log; the names,
\* commands and outputs written are, entry by entry, those a test runner
\* records for the same runnable, also when a step name is used twice.
C19_TestLogEqualsProdLog ==
    ( /\ mode = "prod"
      /\ entry = "Direct"
      /\ status = "returned"
      /\ NoPathTokens(program) )
    => Recorded(written) = Recorded(TestLogOf(program))

----------------------------------------------------------------------------
(* Properties of the JSON form of a step log, checked under SpecJSON. *)

\* C16: a step log that has been encoded to JSON and decoded back is equal
\* to the log that was encoded in every field: name, command, outputs (nil
\* stays nil, empty stays empty), stdout, stderr and exit code.
C16_RoundTrip == jsonOut # <<>> => jsonOut[1] = jsonIn

\* A string, a slice and a step log with every byte that is not valid UTF-8
\* replaced by U+FFFD.
ValidString(str) == [i \in 1..Len(str) |->
                        IF str[i] = "xFF" THEN "uFFFD" ELSE str[i]]

ValidSlice(sl) ==
    [sl EXCEPT !.elems = [i \in 1..Len(sl.elems) |-> ValidString(sl.elems[i])]]

ValidLog(log) ==
    StepLog(ValidString(log.StepName),
            Step(ValidSlice(log.Step.Command), ValidSlice(log.Step.Outputs)),
            StepResult(ValidString(log.StepResult.Stdout),
                       ValidString(log.StepResult.Stderr),
                       log.StepResult.ExitCode))

\* C16, amended: a step log whose strings are all valid UTF-8 comes back
\* from JSON equal in every field, nil and empty command and outputs
\* included; in any step log, a byte that is not valid UTF-8 comes back as
\* U+FFFD and everything else comes back as it was.
C16_RoundTripValidUTF8 ==
    jsonOut # <<>> =>
        /\ jsonOut[1] = ValidLog(jsonIn)
        /\ ValidLog(jsonIn) = jsonIn => jsonOut[1] = jsonIn

\* A step log with nil outputs, a command and a quote in its stdout has been
\* encoded and decoded and came back equal.
C16_Witness ==
    /\ jsonOut = <<jsonIn>>
    /\ jsonText # <<>>
    /\ jsonText[1].step.outputs.kind = "null"
    /\ jsonIn.Step.Outputs = NilSlice
    /\ jsonIn.Step.Command # NilSlice
    /\ jsonIn.StepResult.Stdout = <<"\"">>
    /\ jsonIn.StepResult.ExitCode = 3

----------------------------------------------------------------------------
(* Properties of the placeholder registry, checked under SpecPlaceholder. *)

\* C17: PlaceholderPath, called with a token that an earlier call of
\* Placeholder returned, does not fail and returns the path of the file
\* that call of Placeholder created.
C17_PlaceholderPathOfPlaceholder ==
    \A k \in 1..Len(phCalls) :
        ( /\ phCalls[k].op = "PlaceholderPath"
          /\ \E j \in 1..(k - 1) :
                 /\ phCalls[j].op = "Placeholder"
                 /\ phCalls[j].ret = <<phCalls[k].arg>> )
        => /\ phCalls[k].panic = <<>>
           /\ phCalls[k].ret =
                  <<placeholders[AfterPrefix(phCalls[k].arg, PhPrefix)]>>

\* The calls of Placeholder that returned a token.
Registrations ==
    {k \in 1..Len(phCalls) :
        phCalls[k].op = "Placeholder" /\ phCalls[k].ret # <<>>}

\* C24: the registry only grows.  The tokens Placeholder has returned are
\* pairwise distinct; the entry a call of Placeholder made is in the
\* registry at every later call and now, with the file that call created;
\* and a production Run that is passed a returned token does not fail and
\* starts its process with the path of that file.
C24_RegistryOnlyGrows ==
    /\ \A j, k \in Registrations : j # k => phCalls[j].ret # phCalls[k].ret
    /\ \A j \in Registrations :
           LET id == AfterPrefix(phCalls[j].ret[1], PhPrefix)
               file == phCalls[j].registry[id]
           IN  /\ id \in DOMAIN placeholders
               /\ placeholders[id] = file
               /\ \A k \in (j + 1)..Len(phCalls) :
                      /\ id \in DOMAIN phCalls[k].registry
                      /\ phCalls[k].registry[id] = file
                      /\ (phCalls[k].op = "Run"
                          /\ phCalls[k].arg = phCalls[j].ret[1]) =>
                             /\ phCalls[k].panic = <<>>
                             /\ phCalls[k].ret = <<<<Echo, file>>>>
    /\ \A k \in 1..Len(phCalls) :
           phCalls[k].op = "Placeholder" /\ phCalls[k].ret = <<>> =>
               phCalls[k].registry =
                   (IF k = 1 THEN EmptyRegistry ELSE phCalls[k - 1].registry)

\* Two placeholders were registered and a production Run then resolved the
\* token of the first.
C24_Witness ==
    \E j, k, r \in 1..Len(phCalls) :
        /\ j < k /\ k < r
        /\ j \in Registrations
        /\ k \in Registrations
        /\ phCalls[r].op = "Run"
        /\ phCalls[r].arg = phCalls[j].ret[1]
        /\ phCalls[r].panic = <<>>

----------------------------------------------------------------------------
(* Properties of the error reporter, checked under SpecErrors. *)

\* The message a call of the reporter formatted.
ReportMessage(r) == IF r.fn = "logFatal" THEN r.panic[1] ELSE r.printed[1]

\* C25: every message the reporter formats carries the product tag, the
\* level of the function that made it, and the cause (for logFatal the
\* message and the underlying error, for logWarning the message); it carries
\* the step exactly when the step is not Step{}.  logFatal panics with the
\* message and does not return; logWarning prints it, does not panic and
\* returns.
C25_ReportsFormatted ==
    \A k \in 1..Len(reports) :
        LET r == reports[k]
            m == ReportMessage(r)
        IN  /\ m.tag = "chow"
            /\ m.level = (IF r.fn = "logFatal" THEN "FATAL" ELSE "WARN")
            /\ m.err = <<r.message>> \o r.cause
            /\ (m.step # <<>>) <=> (r.step # ZeroStep)
            /\ m.step # <<>> => m.step[1] = r.step
            /\ r.fn = "logFatal" =>
                   r.panic = <<m>> /\ r.printed = <<>> /\ ~r.returned
            /\ r.fn = "logWarning" =>
                   r.panic = <<>> /\ r.printed = <<m>> /\ r.returned

\* A fatal report with a step and a warning without one have been made.
C25_Witness ==
    /\ Len(reports) = 2
    /\ reports[1].fn = "logFatal"
    /\ reports[1].step # ZeroStep
    /\ reports[1].panic[1].step = <<reports[1].step>>
    /\ reports[2].fn = "logWarning"
    /\ reports[2].step = ZeroStep
    /\ reports[2].printed[1].step = <<>>

----------------------------------------------------------------------------
(* Properties of TestConfig.Run, checked under SpecTestConfig. *)

\* C26: at most one document is ever written to the output of a test case;
\* none is there while the runnable can still call Run; and the document
\* written when the runnable has returned is a JSON array that holds the
\* step logs of the Run calls, one per call, in call order.
C26_ExpectationWrittenOnce ==
    /\ Len(testOutput) <= 1
    /\ testOutput # <<>> =>
           /\ testOutput[1].kind = "array"
           /\ Len(testOutput[1].elems) = Len(calls)
           /\ \A k \in 1..Len(calls) :
                  testOutput[1].elems[k] =
                      StepLog(calls[k].used, calls[k].step, calls[k].result)

----------------------------------------------------------------------------
(* Properties of the capture of the child's output, checked under SpecTee. *)

RECURSIVE Concat(_, _)
\* What the child wrote to a stream in the first n of its writes, in order.
Concat(stream, n) ==
    IF n = 0 THEN ""
    ELSE IF tee.writes[n].stream = stream
         THEN Concat(stream, n - 1) \o tee.writes[n].b
         ELSE Concat(stream, n - 1)

Written(stream) == Concat(stream, Len(tee.writes))

Captured(stream) ==
    IF stream = "out" THEN tee.result[1].Stdout ELSE tee.result[1].Stderr

----------------------------------------------------------------------------
(* The caller's mock list, checked under SpecTest.  The runner is built from
   the caller's slice (testing.go:65), so mocksArr is the array the caller's
   TestCase.Mocks still refers to, with the length it was registered with. *)

\* A mock list as the caller sees it: the Step and Result of each mock.
MockView(ms) ==
    [k \in 1..Len(ms) |-> [Step |-> ms[k].Step, Result |-> ms[k].Result]]

\* C28: the caller's TestCase.Mocks holds the same mocks in the same order
\* as when the test case was handed over, whatever calls of Run were made.
C28_CallerMocksUnchanged == MockView(mocksArr) = MockView(registered)

----------------------------------------------------------------------------
(* Panics of the runnable's own code, checked under SpecMain. *)

\* C29: no panic escapes Main: a run that was started through Main never
\* ends in a panic, whatever value the panic carried.
C29_NoPanicEscapesMain == entry = "Main" => status # "panicked"

----------------------------------------------------------------------------
(* The active mock list across the calls of a test run, checked under
   SpecTest. *)

\* The calls of Run that returned the result of a mock.
MockedCalls == {k \in 1..Len(calls) : calls[k].mock # 0}

\* The active mocks are in registration order, and together with the mocks
\* that calls have used up they are as many as were registered.
C30_Accounting ==
    /\ mocksLen + Cardinality(MockedCalls) = Len(registered)
    /\ \A j, k \in 1..mocksLen : j < k => mocksArr[j].id < mocksArr[k].id
    /\ \A k \in 1..mocksLen : registered[mocksArr[k].id] = mocksArr[k]

\* One call of Run: without a match the active list stays as it is; with a
\* match the list loses the matched mock and nothing else, the others
\* keeping their places relative to each other.
C30_Step ==
    calls' # calls =>
        LET c      == calls'[Len(calls')]
            before == ActiveMocks(mocksArr, mocksLen)
            after  == ActiveMocks(mocksArr', mocksLen')
        IN  IF c.mock = 0 THEN after = before
            ELSE \E i \in 1..Len(before) :
                     /\ before[i].id = c.mock
                     /\ after = SubSeq(before, 1, i - 1)
                                \o SubSeq(before, i + 1, Len(before))

\* C30: a call that matches no mock leaves the active mocks unchanged, a call
\* that matches removes exactly the matched mock and keeps the others in
\* registration order, and at every point the active mocks plus the calls
\* that returned a mock's result number as many as the registered mocks.
C30_ActiveMocksAccounted == []C30_Accounting /\ [][C30_Step]_vars

\* Two mocks were registered; one call matched nothing, a later one matched
\* the first mock, and the second mock is the one still active.
C30_Witness ==
    /\ Len(registered) = MaxMocks
    /\ Len(calls) = 2
    /\ calls[1].mock = 0
    /\ calls[2].mock = 1
    /\ mocksLen = 1
    /\ mocksArr[1] = registered[2]

====
